---- MODULE Spec2Model ----
(***************************************************************************)
(* Model of the random colour API (src/src/server.ts): randomRGB,          *)
(* rgbToHex, rgbToHsl and the GET /api/color/random handler.               *)
(*                                                                         *)
(* JavaScript numbers are IEEE-754 binary64 values.  rgbToHsl divides,     *)
(* adds, subtracts and multiplies them and rounds the results, so the      *)
(* model carries binary64 arithmetic with round-to-nearest-even: a number  *)
(* is a record [cls, sgn, hi, lo, ex] whose value is                       *)
(*        sgn * (hi * 2^27 + lo) * 2^ex                                    *)
(* with a 53-bit significand (2^25 <= hi < 2^26, 0 <= lo < 2^27) unless    *)
(* the number is zero.  cls is "num", "inf" or "nan".                      *)
(* Strings are sequences of one-character strings.                         *)
(***************************************************************************)
EXTENDS Integers, Sequences, FiniteSets, TLC

\* ------------------------------------------------------------------------
\* binary64 arithmetic (the JS Number type)
\* ------------------------------------------------------------------------

\* 2^27: the significand is kept in two limbs of 27 and 26 bits.
B27 == 134217728

Mk(s, h, l, e) == [cls |-> "num", sgn |-> s, hi |-> h, lo |-> l, ex |-> e]
Zero == Mk(1, 0, 0, 0)
NaN == [cls |-> "nan", sgn |-> 1, hi |-> 0, lo |-> 0, ex |-> 0]
Inf(s) == [cls |-> "inf", sgn |-> s, hi |-> 0, lo |-> 0, ex |-> 0]

IsNum(x) == x.cls = "num"
IsZero(x) == x.cls = "num" /\ x.hi = 0 /\ x.lo = 0

\* (hi, lo) shifted right by k bits; a lost 1 bit is kept in the lowest bit.
ShrJam(hi, lo, k) ==
  IF k = 0 THEN <<hi, lo>>
  ELSE IF k < 27 THEN
    LET p == 2^k
        nlo == (hi % p) * 2^(27 - k) + (lo \div p)
        lost == (lo % p) # 0
    IN <<hi \div p, IF lost /\ nlo % 2 = 0 THEN nlo + 1 ELSE nlo>>
  ELSE IF k < 58 THEN
    LET p == 2^(k - 27)
        nlo == hi \div p
        lost == (hi % p) # 0 \/ lo # 0
    IN <<0, IF lost /\ nlo % 2 = 0 THEN nlo + 1 ELSE nlo>>
  ELSE <<0, IF hi # 0 \/ lo # 0 THEN 1 ELSE 0>>

\* Round a 56-bit magnitude (2^28 <= hi < 2^29; the low three bits are
\* guard, round and sticky) to 53 bits, ties to even.
Round56(s, hi, lo, ex) ==
  LET g == lo % 8
      mhi == hi \div 8
      mlo == (hi % 8) * 16777216 + (lo \div 8)
      up == g > 4 \/ (g = 4 /\ mlo % 2 = 1)
      rlo == IF up THEN mlo + 1 ELSE mlo
      chi == mhi + (rlo \div B27)
      clo == rlo % B27
  IN IF chi = 67108864 THEN Mk(s, 33554432, 0, ex + 4)
     ELSE Mk(s, chi, clo, ex + 3)

\* Normalise a magnitude below 2^58 to 56 bits, then round.
RECURSIVE NormRound(_, _, _, _)
NormRound(s, hi, lo, ex) ==
  IF hi = 0 /\ lo = 0 THEN Zero
  ELSE IF hi >= 536870912 THEN
    LET t == ShrJam(hi, lo, 1) IN NormRound(s, t[1], t[2], ex + 1)
  ELSE IF hi = 0 THEN NormRound(s, lo, 0, ex - 27)
  ELSE IF hi < 268435456 THEN
    NormRound(s, 2 * hi + (lo \div 67108864), (2 * lo) % B27, ex - 1)
  ELSE Round56(s, hi, lo, ex)

\* The binary64 value of an integer n with |n| < 2^24.
Num(n) ==
  IF n = 0 THEN Zero
  ELSE IF n < 0 THEN NormRound(-1, 0, (-n) * 8, -3)
  ELSE NormRound(1, 0, n * 8, -3)

\* -1, 0, 1 as |a| is below, equal to, above |b| (both finite).
CmpMag(a, b) ==
  IF IsZero(a) THEN (IF IsZero(b) THEN 0 ELSE -1)
  ELSE IF IsZero(b) THEN 1
  ELSE IF a.ex # b.ex THEN (IF a.ex < b.ex THEN -1 ELSE 1)
  ELSE IF a.hi # b.hi THEN (IF a.hi < b.hi THEN -1 ELSE 1)
  ELSE IF a.lo # b.lo THEN (IF a.lo < b.lo THEN -1 ELSE 1)
  ELSE 0

\* -1, 0, 1 as a < b, a = b, a > b (both finite; -0 does not occur).
Cmp(a, b) ==
  IF IsZero(a) /\ IsZero(b) THEN 0
  ELSE IF IsZero(a) THEN -b.sgn
  ELSE IF IsZero(b) THEN a.sgn
  ELSE IF a.sgn # b.sgn THEN a.sgn
  ELSE a.sgn * CmpMag(a, b)

\* a < b, a > b, a === b, a !== b of the source; any comparison with NaN
\* is false except !==.
Lt(a, b) ==
  IF a.cls = "nan" \/ b.cls = "nan" THEN FALSE
  ELSE IF a.cls = "inf" THEN a.sgn = -1 /\ ~(b.cls = "inf" /\ b.sgn = -1)
  ELSE IF b.cls = "inf" THEN b.sgn = 1
  ELSE Cmp(a, b) = -1
Gt(a, b) == Lt(b, a)
StrictEq(a, b) ==
  IF a.cls = "nan" \/ b.cls = "nan" THEN FALSE
  ELSE IF a.cls = "inf" \/ b.cls = "inf" THEN a.cls = b.cls /\ a.sgn = b.sgn
  ELSE Cmp(a, b) = 0
StrictNe(a, b) == ~StrictEq(a, b)

Neg(x) == [x EXCEPT !.sgn = IF IsZero(x) THEN 1 ELSE -x.sgn]

\* |a| + |b| with sign s, for finite non-zero a, b with a.ex >= b.ex.
AddMag(s, a, b) ==
  LET t == ShrJam(b.hi * 8 + (b.lo \div 16777216), (b.lo % 16777216) * 8,
                  a.ex - b.ex)
      ahi == a.hi * 8 + (a.lo \div 16777216)
      alo == (a.lo % 16777216) * 8
      slo == alo + t[2]
  IN NormRound(s, ahi + t[1] + (slo \div B27), slo % B27, a.ex - 3)

\* |a| - |b| with sign s, for finite non-zero a, b with |a| > |b|.
SubMag(s, a, b) ==
  LET t == ShrJam(b.hi * 8 + (b.lo \div 16777216), (b.lo % 16777216) * 8,
                  a.ex - b.ex)
      ahi == a.hi * 8 + (a.lo \div 16777216)
      alo == (a.lo % 16777216) * 8
      borrow == IF alo < t[2] THEN 1 ELSE 0
  IN NormRound(s, ahi - t[1] - borrow, alo + borrow * B27 - t[2], a.ex - 3)

\* a + b
Add(a, b) ==
  IF a.cls = "nan" \/ b.cls = "nan" THEN NaN
  ELSE IF a.cls = "inf" THEN
    (IF b.cls = "inf" /\ b.sgn # a.sgn THEN NaN ELSE a)
  ELSE IF b.cls = "inf" THEN b
  ELSE IF IsZero(a) THEN b
  ELSE IF IsZero(b) THEN a
  ELSE IF a.sgn = b.sgn THEN
    (IF a.ex >= b.ex THEN AddMag(a.sgn, a, b) ELSE AddMag(a.sgn, b, a))
  ELSE
    LET c == CmpMag(a, b)
    IN IF c = 0 THEN Zero
       ELSE IF c = 1 THEN SubMag(a.sgn, a, b)
       ELSE SubMag(b.sgn, b, a)

\* a - b
Sub(a, b) == Add(a, Neg(b))

\* Long division of rem by (dhi, dlo), for dhi*2^27+dlo <= rem < twice
\* that: one quotient bit a step until the quotient has 54 bits;
\* <<qhi, qlo, the remainder is non-zero>>.
RECURSIVE DivBits(_, _, _, _, _, _)
DivBits(rhi, rlo, dhi, dlo, qhi, qlo) ==
  IF qhi >= 67108864 THEN <<qhi, qlo, rhi # 0 \/ rlo # 0>>
  ELSE
    LET ge == rhi > dhi \/ (rhi = dhi /\ rlo >= dlo)
        borrow == IF ge /\ rlo < dlo THEN 1 ELSE 0
        shi == IF ge THEN rhi - dhi - borrow ELSE rhi
        slo == IF ge THEN rlo + borrow * B27 - dlo ELSE rlo
        q2 == 2 * qlo + (IF ge THEN 1 ELSE 0)
    IN DivBits(2 * shi + (slo \div 67108864), (2 * slo) % B27,
               dhi, dlo, 2 * qhi + (q2 \div B27), q2 % B27)

\* a / b
Div(a, b) ==
  IF a.cls = "nan" \/ b.cls = "nan" THEN NaN
  ELSE IF a.cls = "inf" THEN
    (IF b.cls = "inf" THEN NaN ELSE Inf(a.sgn * b.sgn))
  ELSE IF b.cls = "inf" THEN Zero
  ELSE IF IsZero(b) THEN (IF IsZero(a) THEN NaN ELSE Inf(a.sgn * b.sgn))
  ELSE IF IsZero(a) THEN Zero
  ELSE
    LET small == a.hi < b.hi \/ (a.hi = b.hi /\ a.lo < b.lo)
        nhi == IF small THEN 2 * a.hi + (a.lo \div 67108864) ELSE a.hi
        nlo == IF small THEN (2 * a.lo) % B27 ELSE a.lo
        q == DivBits(nhi, nlo, b.hi, b.lo, 0, 0)
        mhi == q[1] * 4 + (q[2] \div 33554432)
        mlo == (q[2] % 33554432) * 4 + (IF q[3] THEN 1 ELSE 0)
    IN NormRound(a.sgn * b.sgn, mhi, mlo,
                 a.ex - b.ex - 55 - (IF small THEN 1 ELSE 0))

\* x * y for 0 <= x, y < 2^27, as <<high, low>> limbs of 27 bits.
Mul27(x, y) ==
  LET x1 == x \div 16384
      x0 == x % 16384
      y1 == y \div 16384
      y0 == y % 16384
      mid == x1 * y0 + x0 * y1
      low == x0 * y0 + (mid % 8192) * 16384
  IN <<2 * x1 * y1 + (mid \div 8192) + (low \div B27), low % B27>>

\* a * b
Mul(a, b) ==
  IF a.cls = "nan" \/ b.cls = "nan" THEN NaN
  ELSE IF a.cls = "inf" \/ b.cls = "inf" THEN
    (IF IsZero(a) \/ IsZero(b) THEN NaN ELSE Inf(a.sgn * b.sgn))
  ELSE IF IsZero(a) \/ IsZero(b) THEN Zero
  ELSE
    LET ll == Mul27(a.lo, b.lo)
        hl == Mul27(a.hi, b.lo)
        lh == Mul27(a.lo, b.hi)
        hh == Mul27(a.hi, b.hi)
        p0 == ll[2]
        t1 == ll[1] + hl[2] + lh[2]
        p1 == t1 % B27
        t2 == hl[1] + lh[1] + hh[2] + (t1 \div B27)
        p2 == t2 % B27
        p3 == hh[1] + (t2 \div B27)
        mhi == p3 * 16 + (p2 \div 8388608)
        mlo == (p2 % 8388608) * 16 + (p1 \div 8388608)
        lost == (p1 % 8388608) # 0 \/ p0 # 0
    IN NormRound(a.sgn * b.sgn, mhi,
                 IF lost /\ mlo % 2 = 0 THEN mlo + 1 ELSE mlo,
                 a.ex + b.ex + 50)

\* Math.max and Math.min of three numbers.
Max2(a, b) ==
  IF a.cls = "nan" \/ b.cls = "nan" THEN NaN ELSE IF Lt(a, b) THEN b ELSE a
Min2(a, b) ==
  IF a.cls = "nan" \/ b.cls = "nan" THEN NaN ELSE IF Lt(b, a) THEN b ELSE a
MathMax(a, b, c) == Max2(Max2(a, b), c)
MathMin(a, b, c) == Min2(Min2(a, b), c)

\* Math.round: the nearest integer, a tie going towards +infinity.  The
\* numbers met here are below 2^24 in size.
MathRound(x) ==
  IF ~IsNum(x) \/ IsZero(x) THEN x
  ELSE IF x.ex >= 0 THEN x
  ELSE
    LET sh == -x.ex
        ip == IF sh >= 54 THEN 0
              ELSE IF sh >= 27 THEN x.hi \div 2^(sh - 27)
              ELSE x.hi * 2^(27 - sh) + (x.lo \div 2^sh)
        halfbit == IF sh >= 54 THEN 0
                   ELSE IF sh >= 28 THEN (x.hi \div 2^(sh - 28)) % 2
                   ELSE (x.lo \div 2^(sh - 1)) % 2
        below == IF sh >= 54 THEN TRUE
                 ELSE IF sh >= 28 THEN (x.hi % 2^(sh - 28)) # 0 \/ x.lo # 0
                 ELSE (x.lo % 2^(sh - 1)) # 0
        up == IF x.sgn = 1 THEN halfbit = 1 ELSE halfbit = 1 /\ below
    IN Num(x.sgn * (ip + (IF up THEN 1 ELSE 0)))

\* The integer an integer-valued number below 2^24 in size stands for.
ToInt(x) ==
  IF IsZero(x) THEN 0
  ELSE x.sgn * (IF -x.ex >= 27 THEN x.hi \div 2^(-x.ex - 27)
                ELSE x.hi * 2^(27 + x.ex) + (x.lo \div 2^(-x.ex)))

\* Math.floor for a number x >= 0 below 2^24.
MathFloor(x) ==
  IF ~IsNum(x) \/ IsZero(x) \/ x.ex >= 0 THEN x
  ELSE IF -x.ex >= 54 THEN Zero
  ELSE IF -x.ex >= 27 THEN Num(x.hi \div 2^(-x.ex - 27))
  ELSE Num(x.hi * 2^(27 + x.ex) + (x.lo \div 2^(-x.ex)))

\* 0.5, and the largest number below 1.
Half == Mk(1, 33554432, 0, -53)
BelowOne == Mk(1, 67108863, 134217727, -53)

\* ------------------------------------------------------------------------
\* strings
\* ------------------------------------------------------------------------

Digits == <<"0", "1", "2", "3", "4", "5", "6", "7", "8", "9",
            "a", "b", "c", "d", "e", "f">>

\* Number.prototype.toString(radix) of an integer n >= 0.
RECURSIVE IntToString(_, _)
IntToString(n, radix) ==
  IF n < radix THEN <<Digits[n + 1]>>
  ELSE Append(IntToString(n \div radix, radix), Digits[(n % radix) + 1])

\* String.prototype.padStart(len, ch)
RECURSIVE padStart(_, _, _)
padStart(str, len, ch) ==
  IF Len(str) >= len THEN str ELSE padStart(<<ch>> \o str, len, ch)

\* The string a template literal puts in for a number.
NumberToString(x) ==
  IF x.cls = "nan" THEN <<"N", "a", "N">>
  ELSE IF x.cls = "inf" THEN
    (IF x.sgn = -1 THEN <<"-">> ELSE <<>>)
      \o <<"I", "n", "f", "i", "n", "i", "t", "y">>
  ELSE IF ToInt(x) < 0 THEN <<"-">> \o IntToString(-ToInt(x), 10)
  ELSE IntToString(ToInt(x), 10)

\* ------------------------------------------------------------------------
\* the colour functions
\* ------------------------------------------------------------------------

\* randomRGB scaling by 255 instead of 256.
randomRGB255(u) == ToInt(MathFloor(Mul(u, Num(255))))

\* randomRGB, given the value u that Math.random() returns.
randomRGB(u) == ToInt(MathFloor(Mul(u, Num(256))))

\* toHex without the padding.
toHexNoPad(n) == IntToString(n, 16)

toHex(n) == padStart(IntToString(n, 16), 2, "0")

rgbToHex(r, g, b) == <<"#">> \o toHex(r) \o toHex(g) \o toHex(b)

\* The guard left out: hue and saturation computed for grays too.
chromaticAlways(max, min) == TRUE

\* The guard of the hue and saturation computation.
chromatic(max, min) == StrictNe(max, min)

\* The saturation divisor with 1 typed for 2.
satDivisorOne(l, max, min) ==
  IF Gt(l, Half) THEN Sub(Sub(Num(1), max), min) ELSE Add(max, min)

\* The saturation divisor with the two branches exchanged.
satDivisorSwapped(l, max, min) ==
  IF Gt(l, Half) THEN Add(max, min) ELSE Sub(Sub(Num(2), max), min)

\* s = l > 0.5 ? d / (2 - max - min) : d / (max + min)
satDivisor(l, max, min) ==
  IF Gt(l, Half) THEN Sub(Sub(Num(2), max), min) ELSE Add(max, min)
saturation(l, d, max, min) == Div(d, satDivisor(l, max, min))

\* The branch order reversed: blue tested first, then green, then red.
hueBranchBlueFirst(r, g, b, max) ==
  IF StrictEq(max, b) THEN "b" ELSE IF StrictEq(max, g) THEN "g" ELSE "r"

\* The branch of the hue computation: which channel is taken to dominate.
hueBranch(r, g, b, max) ==
  IF StrictEq(max, r) THEN "r" ELSE IF StrictEq(max, g) THEN "g" ELSE "b"

\* The hue turn with the red branch adding 6 whatever g and b are.
hueTurnAlways6(r, g, b, max, d) ==
  IF hueBranch(r, g, b, max) = "r" THEN
    Div(Add(Div(Sub(g, b), d), Num(6)), Num(6))
  ELSE IF hueBranch(r, g, b, max) = "g" THEN
    Div(Add(Div(Sub(b, r), d), Num(2)), Num(6))
  ELSE Div(Add(Div(Sub(r, g), d), Num(4)), Num(6))

\* The hue turn with the offsets of the green and blue branches exchanged.
hueTurnOffsets(r, g, b, max, d) ==
  IF hueBranch(r, g, b, max) = "r" THEN
    Div(Add(Div(Sub(g, b), d), IF Lt(g, b) THEN Num(6) ELSE Num(0)), Num(6))
  ELSE IF hueBranch(r, g, b, max) = "g" THEN
    Div(Add(Div(Sub(b, r), d), Num(4)), Num(6))
  ELSE Div(Add(Div(Sub(r, g), d), Num(2)), Num(6))

\* The hue turn on each branch.
hueTurn(r, g, b, max, d) ==
  IF hueBranch(r, g, b, max) = "r" THEN
    Div(Add(Div(Sub(g, b), d), IF Lt(g, b) THEN Num(6) ELSE Num(0)), Num(6))
  ELSE IF hueBranch(r, g, b, max) = "g" THEN
    Div(Add(Div(Sub(b, r), d), Num(2)), Num(6))
  ELSE Div(Add(Div(Sub(r, g), d), Num(4)), Num(6))

\* The right-hand sides of the three hue assignments, each on its own.
hueRed(r, g, b, d) ==
  Div(Add(Div(Sub(g, b), d), IF Lt(g, b) THEN Num(6) ELSE Num(0)), Num(6))
hueGreen(r, g, b, d) == Div(Add(Div(Sub(b, r), d), Num(2)), Num(6))
hueBlue(r, g, b, d) == Div(Add(Div(Sub(r, g), d), Num(4)), Num(6))

\* The values rgbToHsl computes on the way: the normalised channels, max,
\* min, l, d, s, h, and the divisors of the divisions it performs.
hslSteps(r0, g0, b0) ==
  LET r == Div(Num(r0), Num(255))
      g == Div(Num(g0), Num(255))
      b == Div(Num(b0), Num(255))
      max == MathMax(r, g, b)
      min == MathMin(r, g, b)
      l == Div(Add(max, min), Num(2))
      chrom == chromatic(max, min)
      d == Sub(max, min)
  IN [r |-> r, g |-> g, b |-> b, max |-> max, min |-> min, l |-> l,
      chrom |-> chrom,
      d |-> d,
      s |-> IF chrom THEN saturation(l, d, max, min) ELSE Num(0),
      h |-> IF chrom THEN hueTurn(r, g, b, max, d) ELSE Num(0),
      branch |-> IF chrom THEN hueBranch(r, g, b, max) ELSE "none",
      divisors |-> <<Num(255), Num(255), Num(255), Num(2)>>
                   \o (IF chrom
                       THEN <<satDivisor(l, max, min), d, Num(6)>>
                       ELSE <<>>)]

\* The return statement with the lightness in tenths of a percent.
hslStringFine(t) ==
  <<"h", "s", "l", "(">> \o NumberToString(MathRound(Mul(t.h, Num(360))))
    \o <<",", " ">> \o NumberToString(MathRound(Mul(t.s, Num(100))))
    \o <<"%", ",", " ">> \o NumberToString(MathRound(Mul(t.l, Num(1000))))
    \o <<"%", ")">>

\* The return statement of rgbToHsl, given the values computed before it.
hslString(t) ==
  <<"h", "s", "l", "(">> \o NumberToString(MathRound(Mul(t.h, Num(360))))
    \o <<",", " ">> \o NumberToString(MathRound(Mul(t.s, Num(100))))
    \o <<"%", ",", " ">> \o NumberToString(MathRound(Mul(t.l, Num(100))))
    \o <<"%", ")">>

rgbToHsl(r, g, b) == hslString(hslSteps(r, g, b))

\* `rgb(${r}, ${g}, ${b})`
rgbString(r, g, b) ==
  <<"r", "g", "b", "(">> \o IntToString(r, 10) \o <<",", " ">>
    \o IntToString(g, 10) \o <<",", " ">> \o IntToString(b, 10) \o <<")">>

\* The response object with green and blue exchanged in the hex field.
colorBodyMixed(r, g, b) ==
  [hex |-> rgbToHex(r, b, g), rgb |-> rgbString(r, g, b),
   hsl |-> rgbToHsl(r, g, b)]

\* The response object without its hsl field.
colorBodyNoHsl(r, g, b) ==
  [hex |-> rgbToHex(r, g, b), rgb |-> rgbString(r, g, b)]

\* The object the handler passes to res.json.
colorBody(r, g, b) ==
  [hex |-> rgbToHex(r, g, b), rgb |-> rgbString(r, g, b),
   hsl |-> rgbToHsl(r, g, b)]

\* JSON response that res.json(body) sends.
resJson(body) ==
  [status |-> 200, contentType |-> "application/json", body |-> body]

\* ------------------------------------------------------------------------
\* bounds and input sets
\* ------------------------------------------------------------------------

\* Requests in flight at the server.
MaxRequests == 2
\* Channel values within Edge of 0, of 127/128 and of 255 are converted in
\* every combination.
Edge == 2
\* Math.random() is drawn from the multiples of 2^-RandBits in [0, 1), and
\* the largest number below 1.
RandBits == 8

\* Channel values 0..PairMax are converted in pairs of triples.
PairMax == 2
\* In the server runs Math.random() is drawn from the multiples of
\* 1/ServerSteps in [0, 1), and the largest number below 1.
ServerSteps == 2

Requests == 1..MaxRequests

Channels ==
  {v \in 0..255 : v <= Edge \/ v >= 255 - Edge
                    \/ (v >= 127 - Edge /\ v <= 128 + Edge)}

\* The triples converted: the channel combinations and every gray.
Inputs ==
  (Channels \X Channels \X Channels) \cup {<<v, v, v>> : v \in 0..255}

PairTriples == (0..PairMax) \X (0..PairMax) \X (0..PairMax)

\* What Math.random() may return.
MathRandom ==
  {Div(Num(k), Num(2^RandBits)) : k \in 0..(2^RandBits - 1)} \cup {BelowOne}

\* What Math.random() returns to the handler in the server runs, and what
\* a call of randomRGB() returns there.
ServerRandom ==
  {Div(Num(k), Num(ServerSteps)) : k \in 0..(ServerSteps - 1)} \cup {BelowOne}
ServerChannels == {randomRGB(u) : u \in ServerRandom}

\* colorBody on the triples the server runs draw.  Merging with the empty
\* function leaves it unchanged and makes it an explicit table, computed once.
bodyOf ==
  [t \in ServerChannels \X ServerChannels \X ServerChannels |->
     colorBody(t[1], t[2], t[3])] @@ <<>>

\* ------------------------------------------------------------------------
\* state
\* ------------------------------------------------------------------------

VARIABLES
  reqState,   \* server: request -> "idle", "pending" (received), "done"
  draws,      \* server: request -> the channels drawn for it, <<>> before
  responses,  \* server: request -> the responses sent for it, in order
  args,       \* conversion: the triple (r, g, b) passed in
  out,        \* conversion: <<>>, then what was returned (<<[body, steps]>>;
              \* two hsl strings when rgbToHsl is called on two triples)
  rnd         \* randomRGB: <<>>, then <<[u, n]>>: Math.random() and result

vars == <<reqState, draws, responses, args, out, rnd>>

serverVars == <<reqState, draws, responses>>

ServerIdle ==
  /\ reqState = [q \in Requests |-> "idle"]
  /\ draws = [q \in Requests |-> <<>>]
  /\ responses = [q \in Requests |-> <<>>]

\* ------------------------------------------------------------------------
\* the server: GET /api/color/random
\* ------------------------------------------------------------------------

Init ==
  /\ ServerIdle
  /\ args = <<0, 0, 0>>
  /\ out = <<>>
  /\ rnd = <<>>

\* A GET /api/color/random request reaches the server.
Arrive(q) ==
  /\ reqState[q] = "idle"
  /\ reqState' = [reqState EXCEPT ![q] = "pending"]
  /\ UNCHANGED <<draws, responses, args, out, rnd>>

\* A handler that keeps the colour of the first response in a module-level
\* variable and answers later requests with it.
HandleCached(q) ==
  /\ reqState[q] = "pending"
  /\ \E r \in ServerChannels, g \in ServerChannels, b \in ServerChannels :
       LET sent == {p \in Requests : responses[p] # <<>>}
       IN /\ draws' = [draws EXCEPT ![q] = <<r, g, b>>]
          /\ responses' =
               [responses EXCEPT ![q] =
                  Append(@, IF sent = {} THEN resJson(bodyOf[<<r, g, b>>])
                            ELSE responses[CHOOSE p \in sent : TRUE][1])]
  /\ reqState' = [reqState EXCEPT ![q] = "done"]
  /\ UNCHANGED <<args, out, rnd>>

\* The route handler runs to completion on request q: r, g and b are the
\* results of three calls of randomRGB().
Handle(q) ==
  /\ reqState[q] = "pending"
  /\ \E r \in ServerChannels, g \in ServerChannels, b \in ServerChannels :
       /\ draws' = [draws EXCEPT ![q] = <<r, g, b>>]
       /\ responses' =
            [responses EXCEPT ![q] = Append(@, resJson(bodyOf[<<r, g, b>>]))]
  /\ reqState' = [reqState EXCEPT ![q] = "done"]
  /\ UNCHANGED <<args, out, rnd>>

Next == \E q \in Requests : Arrive(q) \/ Handle(q)

Spec == Init /\ [][Next]_vars

\* ------------------------------------------------------------------------
\* the conversions on their own
\* ------------------------------------------------------------------------

ConvInit ==
  /\ ServerIdle
  /\ args \in Inputs
  /\ out = <<>>
  /\ rnd = <<>>

\* The three formatters are applied to the triple.
Convert ==
  /\ out = <<>>
  /\ out' = <<[body |-> colorBody(args[1], args[2], args[3]),
               steps |-> hslSteps(args[1], args[2], args[3])]>>
  /\ UNCHANGED <<serverVars, args, rnd>>

ConvNext == Convert

ConvSpec == ConvInit /\ [][ConvNext]_vars

\* ------------------------------------------------------------------------
\* rgbToHsl called on two triples
\* ------------------------------------------------------------------------

PairInit ==
  /\ ServerIdle
  /\ args \in PairTriples \X PairTriples
  /\ out = <<>>
  /\ rnd = <<>>

\* rgbToHsl is applied to the first triple, then to the second.
ConvertPair ==
  /\ out = <<>>
  /\ out' = <<rgbToHsl(args[1][1], args[1][2], args[1][3]),
              rgbToHsl(args[2][1], args[2][2], args[2][3])>>
  /\ UNCHANGED <<serverVars, args, rnd>>

PairNext == ConvertPair

PairSpec == PairInit /\ [][PairNext]_vars

\* ------------------------------------------------------------------------
\* randomRGB on its own
\* ------------------------------------------------------------------------

\* One call of randomRGB.
CallRandomRGB ==
  /\ \E u \in MathRandom : rnd' = <<[u |-> u, n |-> randomRGB(u)]>>
  /\ UNCHANGED <<serverVars, args, out>>

RandNext == CallRandomRGB

RandSpec == Init /\ [][RandNext]_vars

\* ------------------------------------------------------------------------
\* reading the output strings
\* ------------------------------------------------------------------------

DecimalChars == {"0", "1", "2", "3", "4", "5", "6", "7", "8", "9"}
HexChars == DecimalChars \cup {"a", "b", "c", "d", "e", "f"}

\* The value of the digit character c.
DigitValue(c) == CHOOSE v \in 0..15 : Digits[v + 1] = c

\* str is the decimal numeral of a natural number: digits only, no sign,
\* no leading zero.
IsNumeral(str) ==
  /\ Len(str) > 0
  /\ \A i \in 1..Len(str) : str[i] \in DecimalChars
  /\ Len(str) > 1 => str[1] # "0"

RECURSIVE NumeralValue(_)
NumeralValue(str) ==
  IF Len(str) = 0 THEN 0
  ELSE 10 * NumeralValue(SubSeq(str, 1, Len(str) - 1))
         + DigitValue(str[Len(str)])

\* The index of the first ch in str at or after from; 0 if there is none.
RECURSIVE IndexOf(_, _, _)
IndexOf(str, ch, from) ==
  IF from > Len(str) THEN 0
  ELSE IF str[from] = ch THEN from
  ELSE IndexOf(str, ch, from + 1)

\* The three fields of a string hsl(H, S%, L%), as written.
HslFields(str) ==
  LET c1 == IndexOf(str, ",", 1)
      p1 == IndexOf(str, "%", 1)
      c2 == IndexOf(str, ",", c1 + 1)
      p2 == IndexOf(str, "%", p1 + 1)
  IN [h |-> SubSeq(str, 5, c1 - 1),
      s |-> SubSeq(str, c1 + 2, p1 - 1),
      l |-> SubSeq(str, c2 + 2, p2 - 1)]

\* The conversion has returned; its outputs.
Returned == out # <<>>
HexOut == out[1].body.hex
RgbOut == out[1].body.rgb
HslOut == out[1].body.hsl
StepsOut == out[1].steps
HueOut == NumeralValue(HslFields(HslOut).h)
SatOut == NumeralValue(HslFields(HslOut).s)
LightOut == NumeralValue(HslFields(HslOut).l)

\* ------------------------------------------------------------------------
\* claims
\* ------------------------------------------------------------------------

\* C1 as stated: the hue written into the output string is an integer H
\* with 0 <= H < 360; 360 is never emitted.  Refuted by (255, 0, 1).
C1_HueBelow360 ==
  Returned => IsNumeral(HslFields(HslOut).h) /\ HueOut \in 0..359

\* C1 as amended: the hue written into the output string is an integer H
\* with 0 <= H <= 360, and 360 is written only on the red branch with
\* green below blue.
C1_HueAtMost360 ==
  Returned =>
    /\ IsNumeral(HslFields(HslOut).h)
    /\ HueOut \in 0..360
    /\ HueOut = 360 =>
         /\ args[1] >= args[2] /\ args[1] >= args[3]
         /\ args[2] < args[3]

C1_Witness == Returned /\ args = <<255, 0, 1>> /\ HueOut = 360

\* C2: the saturation S and the lightness L written into the output
\* string are integers with 0 <= S <= 100 and 0 <= L <= 100.
C2_SatLightInRange ==
  Returned =>
    /\ IsNumeral(HslFields(HslOut).s) /\ SatOut \in 0..100
    /\ IsNumeral(HslFields(HslOut).l) /\ LightOut \in 0..100

C2_Witness ==
  Returned /\ args = <<255, 253, 254>> /\ SatOut = 100 /\ LightOut = 100

\* C3: rgbToHex returns '#' and six lowercase hexadecimal digits, the
\* three pairs being r, g and b in base 16, padded with '0' to two digits.
C3_HexFormat ==
  Returned =>
    /\ Len(HexOut) = 7
    /\ HexOut[1] = "#"
    /\ \A i \in 2..7 : HexOut[i] \in HexChars
    /\ \A k \in 1..3 :
         16 * DigitValue(HexOut[2 * k]) + DigitValue(HexOut[2 * k + 1])
           = args[k]

C3_Witness ==
  Returned /\ args = <<2, 255, 128>>
    /\ HexOut = <<"#", "0", "2", "f", "f", "8", "0">>

\* C4: for a gray (v, v, v) rgbToHsl returns hsl(0, 0%, L%) with
\* L = round(v / 255 * 100); black and white among them.
C4_Gray ==
  (Returned /\ args[1] = args[2] /\ args[2] = args[3]) =>
    /\ HslOut = <<"h", "s", "l", "(", "0", ",", " ", "0", "%", ",", " ">>
                  \o HslFields(HslOut).l \o <<"%", ")">>
    /\ IsNumeral(HslFields(HslOut).l)
    /\ LightOut = (200 * args[1] + 255) \div 510
    /\ ~StepsOut.chrom

C4_Witness ==
  Returned /\ args = <<255, 255, 255>> /\ ~StepsOut.chrom
    /\ HslOut = <<"h", "s", "l", "(", "0", ",", " ", "0", "%", ",", " ",
                  "1", "0", "0", "%", ")">>

\* C5: the five literal scenarios give exactly the listed hex, rgb and
\* hsl strings.
C5_Literals ==
  Returned =>
    /\ args = <<255, 0, 0>> =>
         /\ HexOut = <<"#", "f", "f", "0", "0", "0", "0">>
         /\ RgbOut = <<"r", "g", "b", "(", "2", "5", "5", ",", " ", "0",
                       ",", " ", "0", ")">>
         /\ HslOut = <<"h", "s", "l", "(", "0", ",", " ", "1", "0", "0",
                       "%", ",", " ", "5", "0", "%", ")">>
    /\ args = <<0, 128, 0>> =>
         /\ HexOut = <<"#", "0", "0", "8", "0", "0", "0">>
         /\ RgbOut = <<"r", "g", "b", "(", "0", ",", " ", "1", "2", "8",
                       ",", " ", "0", ")">>
         /\ HslOut = <<"h", "s", "l", "(", "1", "2", "0", ",", " ", "1",
                       "0", "0", "%", ",", " ", "2", "5", "%", ")">>
    /\ args = <<128, 128, 128>> =>
         /\ HexOut = <<"#", "8", "0", "8", "0", "8", "0">>
         /\ RgbOut = <<"r", "g", "b", "(", "1", "2", "8", ",", " ", "1",
                       "2", "8", ",", " ", "1", "2", "8", ")">>
         /\ HslOut = <<"h", "s", "l", "(", "0", ",", " ", "0", "%", ",",
                       " ", "5", "0", "%", ")">>
    /\ args = <<255, 255, 255>> =>
         /\ HexOut = <<"#", "f", "f", "f", "f", "f", "f">>
         /\ RgbOut = <<"r", "g", "b", "(", "2", "5", "5", ",", " ", "2",
                       "5", "5", ",", " ", "2", "5", "5", ")">>
         /\ HslOut = <<"h", "s", "l", "(", "0", ",", " ", "0", "%", ",",
                       " ", "1", "0", "0", "%", ")">>
    /\ args = <<0, 0, 0>> =>
         /\ HexOut = <<"#", "0", "0", "0", "0", "0", "0">>
         /\ RgbOut = <<"r", "g", "b", "(", "0", ",", " ", "0", ",", " ",
                       "0", ")">>
         /\ HslOut = <<"h", "s", "l", "(", "0", ",", " ", "0", "%", ",",
                       " ", "0", "%", ")">>

C5_Witness ==
  Returned /\ args = <<0, 128, 0>>
    /\ HslOut = <<"h", "s", "l", "(", "1", "2", "0", ",", " ", "1", "0",
                  "0", "%", ",", " ", "2", "5", "%", ")">>
\* C6: every request the handler has processed has exactly one response,
\* a JSON response whose body has exactly the fields hex, rgb and hsl, each
\* a string; a request not yet processed has none.
OutputChars ==
  HexChars \cup {"#", "r", "g", "b", "h", "s", "l", "(", ")", ",", " ", "%"}

IsString(x) == Len(x) > 0 /\ \A i \in 1..Len(x) : x[i] \in OutputChars

C6_OneJsonResponse ==
  \A q \in Requests :
    /\ reqState[q] # "done" => responses[q] = <<>>
    /\ reqState[q] = "done" =>
         /\ Len(responses[q]) = 1
         /\ responses[q][1].status = 200
         /\ responses[q][1].contentType = "application/json"
         /\ DOMAIN responses[q][1].body = {"hex", "rgb", "hsl"}
         /\ IsString(responses[q][1].body.hex)
         /\ IsString(responses[q][1].body.rgb)
         /\ IsString(responses[q][1].body.hsl)

C6_Witness ==
  /\ \A q \in Requests : reqState[q] = "done" /\ Len(responses[q]) = 1
  /\ responses[1][1].body.hex = <<"#", "f", "f", "8", "0", "0", "0">>

\* C7: every call of randomRGB returns an integer in 0..255, and every
\* value of 0..255 is the result for some value of Math.random().
C7_RandomRGBRange ==
  /\ rnd # <<>> => rnd[1].n \in 0..255
  /\ {randomRGB(u) : u \in MathRandom} = 0..255

C7_Witness == rnd # <<>> /\ rnd[1].u = BelowOne /\ rnd[1].n = 255

\* C8: no division of rgbToHsl has a zero divisor: when max != min the
\* divisors d and max+min (L <= 0.5) or 2-max-min (L > 0.5) are non-zero,
\* when max = min nothing is divided by them, and the three numbers
\* written are integers.
C8_NoZeroDivisor ==
  Returned =>
    /\ \A i \in 1..Len(StepsOut.divisors) :
         IsNum(StepsOut.divisors[i]) /\ ~IsZero(StepsOut.divisors[i])
    /\ StepsOut.chrom =>
         /\ ~IsZero(StepsOut.d)
         /\ IF Gt(StepsOut.l, Half)
            THEN ~IsZero(Sub(Sub(Num(2), StepsOut.max), StepsOut.min))
            ELSE ~IsZero(Add(StepsOut.max, StepsOut.min))
    /\ ~StepsOut.chrom =>
         /\ StrictEq(StepsOut.max, StepsOut.min)
         /\ Len(StepsOut.divisors) = 4
    /\ IsNumeral(HslFields(HslOut).h)
    /\ IsNumeral(HslFields(HslOut).s)
    /\ IsNumeral(HslFields(HslOut).l)

C8_Witness ==
  /\ Returned /\ args = <<255, 255, 254>>
  /\ StepsOut.chrom /\ Gt(StepsOut.l, Half)
  /\ Len(StepsOut.divisors) = 7

\* C9: handling a request answers it with the colour of the three
\* channels drawn for it and with nothing else, and changes nothing of
\* any other request, in whatever order requests are handled.
C9_Independent ==
  [][\A q \in Requests :
       (reqState[q] = "pending" /\ reqState'[q] = "done") =>
         /\ responses'[q] = <<resJson(bodyOf[draws'[q]])>>
         /\ \A p \in Requests \ {q} :
              /\ reqState'[p] = reqState[p]
              /\ draws'[p] = draws[p]
              /\ responses'[p] = responses[p]]_vars

C9_Witness ==
  /\ \A q \in Requests : reqState[q] = "done"
  /\ draws[1] = <<255, 0, 128>>
  /\ draws[2] = <<0, 128, 0>>
  /\ responses[1][1].body.hsl # responses[2][1].body.hsl

\* C10: rgbToHsl returns the string of the specification's algorithm,
\* steps 1-7, with saturation d/(max+min) if L <= 0.5 and d/(2-max-min)
\* otherwise.
Le(a, b) == Lt(a, b) \/ StrictEq(a, b)

SpecSaturation(L, d, max, min) ==
  IF Le(L, Half) THEN Div(d, Add(max, min))
  ELSE Div(d, Sub(Sub(Num(2), max), min))

SpecTurn(r, g, b, max, d) ==
  IF StrictEq(max, r) THEN
    Div(Add(Div(Sub(g, b), d), IF Lt(g, b) THEN Num(6) ELSE Num(0)), Num(6))
  ELSE IF StrictEq(max, g) THEN Div(Add(Div(Sub(b, r), d), Num(2)), Num(6))
  ELSE Div(Add(Div(Sub(r, g), d), Num(4)), Num(6))

SpecScaled(turn, sat, L) ==
  <<"h", "s", "l", "(">> \o NumberToString(MathRound(Mul(turn, Num(360))))
    \o <<",", " ">> \o NumberToString(MathRound(Mul(sat, Num(100))))
    \o <<"%", ",", " ">> \o NumberToString(MathRound(Mul(L, Num(100))))
    \o <<"%", ")">>

SpecConvert(r, g, b, max, min) ==
  IF StrictEq(max, min)
  THEN SpecScaled(Num(0), Num(0), Div(Add(max, min), Num(2)))
  ELSE SpecScaled(SpecTurn(r, g, b, max, Sub(max, min)),
                  SpecSaturation(Div(Add(max, min), Num(2)), Sub(max, min),
                                 max, min),
                  Div(Add(max, min), Num(2)))

SpecNormalized(r, g, b) ==
  SpecConvert(r, g, b, MathMax(r, g, b), MathMin(r, g, b))

SpecHsl(r, g, b) ==
  SpecNormalized(Div(Num(r), Num(255)), Div(Num(g), Num(255)),
                 Div(Num(b), Num(255)))

C10_SpecAlgorithm ==
  Returned => HslOut = SpecHsl(args[1], args[2], args[3])

C10_Witness ==
  /\ Returned /\ args = <<255, 0, 128>>
  /\ StepsOut.chrom /\ StrictEq(StepsOut.l, Half)
  /\ HslOut = SpecHsl(255, 0, 128)
\* ------------------------------------------------------------------------
\* C11: the hue branch is chosen in the order max==r, max==g, max==b.  For a
\* non-gray input, when red is a maximum (alone or tied) the red formula
\* gives h; when green is a maximum and red is smaller the green formula
\* gives h; the blue formula gives h only when blue is the strict maximum.
\* ------------------------------------------------------------------------
MaxOf3(a, b, c) ==
  IF a >= b /\ a >= c THEN a ELSE IF b >= c THEN b ELSE c

C11_BranchOrder ==
  (out # <<>> /\ StepsOut.chrom) =>
    LET t == StepsOut
        m == MaxOf3(args[1], args[2], args[3])
    IN /\ args[1] = m =>
            /\ t.branch = "r"
            /\ t.h = hueRed(t.r, t.g, t.b, t.d)
       /\ (args[1] < m /\ args[2] = m) =>
            /\ t.branch = "g"
            /\ t.h = hueGreen(t.r, t.g, t.b, t.d)
       /\ t.branch = "b" <=> (args[3] > args[1] /\ args[3] > args[2])
       /\ t.branch = "b" => t.h = hueBlue(t.r, t.g, t.b, t.d)

\* Red ties with blue for the maximum and the red branch is the one taken.
C11_Witness ==
  /\ out # <<>>
  /\ args = <<255, 0, 255>>
  /\ StepsOut.branch = "r"
  /\ HueOut = 300

\* ------------------------------------------------------------------------
\* C12: for a non-gray input the emitted hue lies in the sector of the branch
\* taken: red gives 0..60 when g >= b and 300..360 when g < b, green gives
\* 60..180, blue gives 180..300.
\* ------------------------------------------------------------------------
C12_HueSector ==
  (out # <<>> /\ StepsOut.chrom) =>
    /\ IsNumeral(HslFields(HslOut).h)
    /\ StepsOut.branch \in {"r", "g", "b"}
    /\ (StepsOut.branch = "r" /\ args[2] >= args[3]) => HueOut \in 0..60
    /\ (StepsOut.branch = "r" /\ args[2] < args[3]) => HueOut \in 300..360
    /\ StepsOut.branch = "g" => HueOut \in 60..180
    /\ StepsOut.branch = "b" => HueOut \in 180..300

\* A blue-dominant input inside the blue sector.
C12_Witness ==
  /\ out # <<>>
  /\ args = <<0, 128, 255>>
  /\ StepsOut.branch = "b"
  /\ HueOut = 210

\* ------------------------------------------------------------------------
\* C13: before scaling and rounding the hue turn h satisfies 0 <= h < 1 on
\* every input; on the red branch the base term (g - b) / d lies in -1..1 and
\* is negative exactly when g < b, which is when 6 is added.
\* ------------------------------------------------------------------------
C13_TurnBelowOne ==
  out # <<>> =>
    LET t == StepsOut
        base == Div(Sub(t.g, t.b), t.d)
    IN /\ IsNum(t.h)
       /\ Le(Zero, t.h)
       /\ Lt(t.h, Num(1))
       /\ t.branch = "r" =>
            /\ Le(Num(-1), base) /\ Le(base, Num(1))
            /\ Lt(base, Zero) <=> args[2] < args[3]
            /\ Lt(base, Zero) <=> Lt(t.g, t.b)

\* The turn closest to 1: it stays below 1 although its degrees round to 360.
C13_Witness ==
  /\ out # <<>>
  /\ args = <<255, 0, 1>>
  /\ StepsOut.branch = "r"
  /\ Lt(StepsOut.h, Num(1))
  /\ Lt(Div(Num(719), Num(720)), StepsOut.h)

\* ------------------------------------------------------------------------
\* C14: rgbToHsl and the way back to RGB.
\* ------------------------------------------------------------------------

\* The three rounded numbers the return statement prints.
RoundedHsl(t) ==
  <<ToInt(MathRound(Mul(t.h, Num(360)))),
    ToInt(MathRound(Mul(t.s, Num(100)))),
    ToInt(MathRound(Mul(t.l, Num(100))))>>

IsGray(t) == t[1] = t[2] /\ t[2] = t[3]

\* C14 as stated: any two distinct triples yield distinct hsl strings.
C14_Injective ==
  (out # <<>> /\ args[1] # args[2]) => out[1] # out[2]

\* The rounded numbers rgbToHsl prints for the triple t.
RoundedOf(t) == RoundedHsl(hslSteps(t[1], t[2], t[3]))

\* C14 as the code has it: the string carries the rounded H, S and L and
\* nothing else.  Two triples yield the same string exactly when their
\* rounded H, S, L agree, so distinct triples can share one: two grays whose
\* lightness rounds to the same percent do.  Strings that differ come from
\* triples that differ.
C14_RoundedOnly ==
  out # <<>> =>
    /\ RoundedOf(args[1]) = RoundedOf(args[2]) <=> out[1] = out[2]
    /\ (/\ IsGray(args[1]) /\ IsGray(args[2])
        /\ MathRound(Mul(Div(Num(args[1][1]), Num(255)), Num(100)))
             = MathRound(Mul(Div(Num(args[2][1]), Num(255)), Num(100))))
         => out[1] = out[2]
    /\ out[1] # out[2] => args[1] # args[2]

\* Black and the gray next to it yield the same string.
C14_Witness ==
  /\ out # <<>>
  /\ args = <<<<0, 0, 0>>, <<1, 1, 1>>>>
  /\ out[1] = out[2]
  /\ out[1] = <<"h", "s", "l", "(", "0", ",", " ", "0", "%", ",", " ",
                "0", "%", ")">>

\* ------------------------------------------------------------------------
\* C15: in every response the three fields describe one colour.  The request
\* has one triple of draws, each in 0..255, made when it is handled and not
\* before; hex, rgb and hsl are rgbToHex, "rgb(r, g, b)" and rgbToHsl of that
\* triple; the rgb field holds unpadded decimal numerals separated by ", ";
\* and the digit pairs of the hex field read as the numbers of the rgb field.
\* ------------------------------------------------------------------------

\* The three numerals of a string rgb(R, G, B), as written.
RgbFields(str) ==
  LET c1 == IndexOf(str, ",", 1)
      c2 == IndexOf(str, ",", c1 + 1)
  IN <<SubSeq(str, 5, c1 - 1),
       SubSeq(str, c1 + 2, c2 - 1),
       SubSeq(str, c2 + 2, Len(str) - 1)>>

\* The numbers of the three digit pairs of a string #rrggbb.
HexPairs(str) ==
  <<16 * DigitValue(str[2]) + DigitValue(str[3]),
    16 * DigitValue(str[4]) + DigitValue(str[5]),
    16 * DigitValue(str[6]) + DigitValue(str[7])>>

C15_OneColour ==
  \A q \in Requests :
    /\ reqState[q] # "done" => draws[q] = <<>>
    /\ reqState[q] = "done" =>
         LET d == draws[q]
             body == responses[q][1].body
             f == RgbFields(body.rgb)
         IN /\ d \in (0..255) \X (0..255) \X (0..255)
            /\ body.hex = rgbToHex(d[1], d[2], d[3])
            /\ body.rgb = <<"r", "g", "b", "(">> \o f[1] \o <<",", " ">>
                             \o f[2] \o <<",", " ">> \o f[3] \o <<")">>
            /\ \A i \in 1..3 : IsNumeral(f[i]) /\ NumeralValue(f[i]) = d[i]
            /\ body.hsl = bodyOf[d].hsl
            /\ Len(body.hex) = 7
            /\ HexPairs(body.hex) = d

\* A handled request whose three fields all describe (255, 0, 128).
C15_Witness ==
  /\ reqState[1] = "done"
  /\ draws[1] = <<255, 0, 128>>
  /\ responses[1][1].body.hex = <<"#", "f", "f", "0", "0", "8", "0">>
  /\ responses[1][1].body.rgb =
       <<"r", "g", "b", "(", "2", "5", "5", ",", " ", "0", ",", " ",
         "1", "2", "8", ")">>
  /\ responses[1][1].body.hsl =
       <<"h", "s", "l", "(", "3", "3", "0", ",", " ", "1", "0", "0", "%",
         ",", " ", "5", "0", "%", ")">>

\* ------------------------------------------------------------------------
\* C16: the tie-break order does not change the output.  For a non-gray
\* input in which two channels tie for the maximum, the hue formula of either
\* tied channel gives the same emitted H: 60 for red = green, 180 for
\* green = blue, 300 for red = blue; the string returned with either formula
\* is the string rgbToHsl returns.
\* ------------------------------------------------------------------------

\* The hue the return statement prints for the turn h.
EmittedHue(h) == ToInt(MathRound(Mul(h, Num(360))))

C16_TieBreakIrrelevant ==
  (out # <<>> /\ StepsOut.chrom) =>
    LET t == StepsOut
        m == MaxOf3(args[1], args[2], args[3])
        red == hueRed(t.r, t.g, t.b, t.d)
        green == hueGreen(t.r, t.g, t.b, t.d)
        blue == hueBlue(t.r, t.g, t.b, t.d)
    IN /\ (args[1] = m /\ args[2] = m) =>
            /\ EmittedHue(red) = 60 /\ EmittedHue(green) = 60
            /\ HueOut = 60
            /\ hslString([t EXCEPT !.h = red]) = HslOut
            /\ hslString([t EXCEPT !.h = green]) = HslOut
       /\ (args[2] = m /\ args[3] = m) =>
            /\ EmittedHue(green) = 180 /\ EmittedHue(blue) = 180
            /\ HueOut = 180
            /\ hslString([t EXCEPT !.h = green]) = HslOut
            /\ hslString([t EXCEPT !.h = blue]) = HslOut
       /\ (args[1] = m /\ args[3] = m) =>
            /\ EmittedHue(red) = 300 /\ EmittedHue(blue) = 300
            /\ HueOut = 300
            /\ hslString([t EXCEPT !.h = red]) = HslOut
            /\ hslString([t EXCEPT !.h = blue]) = HslOut

\* Green ties with blue for the maximum; both formulas give 180.
C16_Witness ==
  /\ out # <<>>
  /\ args = <<1, 128, 128>>
  /\ StepsOut.branch = "g"
  /\ HueOut = 180
  /\ EmittedHue(hueBlue(StepsOut.r, StepsOut.g, StepsOut.b, StepsOut.d)) = 180
====
